---- MODULE Spec2Model ----
EXTENDS Integers, Sequences, FiniteSets, TLC

(***************************************************************************)
(* The expense tracker: the HTTP handlers of app.py over the SQLite store  *)
(* of db_helper.py.                                                        *)
(*                                                                         *)
(* Modelling decisions:                                                    *)
(*  - Time is counted in whole seconds, the resolution of both             *)
(*    CURRENT_TIMESTAMP and strftime('%Y-%m-%d %H:%M:%S'); the fixed-width *)
(*    timestamp strings compare like the second counts they denote.        *)
(*    clock is the UTC instant; the host's local time is clock + tz.       *)
(*  - amount (REAL) is modelled by exact integers: floating-point          *)
(*    rounding and the float specials (nan, inf) are outside the model.    *)
(*  - A JSON / Python value is a record [type, num, str]; SQL NULL is the  *)
(*    value of type "null".                                                *)
(*  - Where SQL leaves the order of rows with equal sort keys open, the    *)
(*    model takes every order that respects the keys.                      *)
(*  - In Spec, SpecApi and SpecFaults requests are handled one at a time   *)
(*    and each handler is one step; in SpecThreads each statement of a     *)
(*    handler is one step and two threads interleave.                      *)
(*                                                                         *)
(* Spec is the whole service over well-formed requests, with time passing. *)
(* SpecApi is the Create handler alone over requests of every validity.    *)
(* SpecThreads is the service with overlapping requests.                   *)
(* SpecFaults is the service with storage statements failing.              *)
(***************************************************************************)

VARIABLES
    rows,         \* the rows of table personal_expenses
    seq,          \* AUTOINCREMENT high-water mark (sqlite_sequence)
    clock,        \* current UTC instant, in seconds
    tz,           \* offset of the host's local time from UTC, in seconds
    call,         \* the last request received
    response,     \* the response to it
    deleted_ids,  \* history: the ids for which a delete reported success
    threads,      \* the requests being served in overlapping threads
    conns         \* the connections opened and not closed

vars == <<rows, seq, clock, tz, call, response, deleted_ids, threads, conns>>

----------------------------------------------------------------------------
(* Bounds of the model *)

MaxId == 2
TickSeconds == 300
MaxClock == 600

----------------------------------------------------------------------------
(* Values *)

JNull == [type |-> "null", num |-> 0, str |-> ""]
JNum(n) == [type |-> "number", num |-> n, str |-> ""]
JStr(s) == [type |-> "string", num |-> 0, str |-> s]
Absent == [type |-> "absent", num |-> 0, str |-> ""]

\* dict.get(key): None when the key is absent
Get(data, key) == IF data[key] = Absent THEN JNull ELSE data[key]

\* dict.get(key, default)
GetDefault(data, key, default) == IF data[key] = Absent THEN default ELSE data[key]

\* Python truthiness of a value: None, "" and 0 are falsy
Truthy(v) ==
    /\ v.type # "null"
    /\ v.type # "absent"
    /\ (v.type = "string" => v.str # "")
    /\ (v.type = "number" => v.num # 0)

\* float(x): a number converts to itself, a string converts when it spells a
\* number and raises ValueError otherwise
float(v) ==
    IF v.type = "number" THEN [ok |-> TRUE, val |-> v.num]
    ELSE IF v.type = "string" /\ v.str = "2" THEN [ok |-> TRUE, val |-> 2]
    ELSE IF v.type = "string" /\ v.str = "-1" THEN [ok |-> TRUE, val |-> -1]
    ELSE [ok |-> FALSE, val |-> 0]

\* str.upper() on the spellings the requests use
upper(s) ==
    CASE s = "food" -> "FOOD"
      [] s = "Food" -> "FOOD"
      [] s = "rent" -> "RENT"
      [] s = "Rent" -> "RENT"
      [] s = "pets" -> "PETS"
      [] OTHER -> s

\* mutant: a label the table's CHECK constraint does not have
VALID_CATEGORIES_extra ==
    {"FOOD", "RENT", "TRANSPORT", "GROCERIES", "UTILITIES", "ENTERTAINMENT",
     "HEALTH", "EDUCATION", "SHOPPING", "TRAVEL", "OTHER", "PETS"}

VALID_CATEGORIES ==
    {"FOOD", "RENT", "TRANSPORT", "GROCERIES", "UTILITIES", "ENTERTAINMENT",
     "HEALTH", "EDUCATION", "SHOPPING", "TRAVEL", "OTHER"}

\* the CHECK constraint of the table on column category
SchemaCategories ==
    {"FOOD", "RENT", "TRANSPORT", "GROCERIES", "UTILITIES", "ENTERTAINMENT",
     "HEALTH", "EDUCATION", "SHOPPING", "TRAVEL", "OTHER"}

time_window_minutes == 5

\* timedelta(minutes=m), in seconds
timedelta(minutes) == minutes * 60

\* datetime.now(): the host's local time
LocalNow == clock + tz

\* mutant: the timestamp is taken from the host's local time
CURRENT_TIMESTAMP_local == clock + tz

\* CURRENT_TIMESTAMP: UTC
CURRENT_TIMESTAMP == clock

\* the BINARY collation order of the date strings in use
DateOrd(d) ==
    CASE d = "2024-01-01" -> 1
      [] d = "2024-01-03" -> 3
      [] OTHER -> 0

NoRow ==
    [id |-> 0, amount |-> 0, category |-> "", description |-> JNull,
     expense_date |-> "", created_at |-> 0]

\* SQL "a = b": never true when either side is NULL
SqlEq(a, b) == a.type # "null" /\ b.type # "null" /\ a = b

RowIds(S) == {r.id : r \in S}

----------------------------------------------------------------------------
(* db_helper.py: the store *)

\* the threshold of check_duplicate: local time minus the window
time_threshold == LocalNow - timedelta(time_window_minutes)

\* mutant: the description takes no part in the match
DescriptionMatches_any(stored, given) == TRUE

\* (description = ? OR (description IS NULL AND ? IS NULL))
DescriptionMatches(stored, given) ==
    \/ SqlEq(stored, given)
    \/ (stored.type = "null" /\ given.type = "null")

\* The rows fetchone() may return in check_duplicate; the empty set is None.
\* ORDER BY created_at DESC LIMIT 1 leaves the choice among the newest open.
check_duplicate(amount, category, expense_date, description) ==
    LET matching == {r \in rows :
            /\ r.amount = amount
            /\ r.category = category
            /\ r.expense_date = expense_date
            /\ DescriptionMatches(r.description, description)
            /\ r.created_at >= time_threshold}
    IN {r \in matching : \A o \in matching : o.created_at <= r.created_at}

MaxOf(S) == CHOOSE m \in S : \A x \in S : x <= m

\* mutant: INTEGER PRIMARY KEY without AUTOINCREMENT, one more than the
\* largest rowid now in the table
NextRowId_reuse == MaxOf(RowIds(rows) \cup {0}) + 1

\* INTEGER PRIMARY KEY AUTOINCREMENT: one more than the largest rowid the
\* table has ever held
NextRowId == MaxOf(RowIds(rows) \cup {seq}) + 1

\* mutant: the row is inserted also when a duplicate was found
add_expense_always_inserts(amount, category, expense_date, description) ==
    LET existing == check_duplicate(amount, category, expense_date, description)
        row == [id |-> NextRowId, amount |-> amount, category |-> category,
                description |-> description, expense_date |-> expense_date,
                created_at |-> CURRENT_TIMESTAMP]
    IN IF existing # {}
       THEN {[status |-> "duplicate", expense |-> e, rows |-> rows \cup {row},
              seq |-> row.id] : e \in existing}
       ELSE {[status |-> "created", expense |-> row, rows |-> rows \cup {row},
              seq |-> row.id]}

\* The outcomes of add_expense: its result and the table after it.
add_expense(amount, category, expense_date, description) ==
    LET existing == check_duplicate(amount, category, expense_date, description)
        row == [id |-> NextRowId, amount |-> amount, category |-> category,
                description |-> description, expense_date |-> expense_date,
                created_at |-> CURRENT_TIMESTAMP]
    IN IF existing # {}
       THEN {[status |-> "duplicate", expense |-> e, rows |-> rows, seq |-> seq] :
                e \in existing}
       ELSE IF category \notin SchemaCategories
       THEN {[status |-> "IntegrityError", expense |-> NoRow, rows |-> rows,
              seq |-> seq]}
       ELSE {[status |-> "created", expense |-> row, rows |-> rows \cup {row},
              seq |-> row.id]}

\* WHERE category = ?, added only when the argument is truthy
Selected(category) ==
    IF Truthy(category) THEN {r \in rows : r.category = category.str} ELSE rows

\* row a must come before row b under the ORDER BY clause
Before(a, b, sort_by_date_desc) ==
    IF sort_by_date_desc
    THEN \/ DateOrd(a.expense_date) > DateOrd(b.expense_date)
         \/ /\ a.expense_date = b.expense_date
            /\ a.created_at > b.created_at
    ELSE \/ DateOrd(a.expense_date) < DateOrd(b.expense_date)
         \/ /\ a.expense_date = b.expense_date
            /\ a.created_at < b.created_at

Perms(S) ==
    {f \in [1..Cardinality(S) -> S] :
        \A i, j \in 1..Cardinality(S) : i # j => f[i] # f[j]}

\* The lists get_expenses may return.
get_expenses(category, sort_by_date_desc) ==
    {s \in Perms(Selected(category)) :
        \A i, j \in 1..Len(s) : i < j => ~Before(s[j], s[i], sort_by_date_desc)}

RECURSIVE SumAmounts(_)
SumAmounts(S) ==
    IF S = {} THEN 0
    ELSE LET r == CHOOSE x \in S : TRUE
         IN r.amount + SumAmounts(S \ {r})

\* SELECT SUM(amount): NULL over no rows
SqlSum(S) == IF S = {} THEN JNull ELSE JNum(SumAmounts(S))

\* mutant: the SUM is returned as it is, NULL over no rows
get_total_expenses_null(category) == SqlSum(Selected(category))

get_total_expenses(category) ==
    LET total == SqlSum(Selected(category))
    IN IF Truthy(total) THEN total ELSE JNum(0)

\* mutant: DELETE with WHERE id <= ?, older records go with the one named
delete_expense_upto(expense_id) ==
    IF ~(\E r \in rows : r.id = expense_id)
    THEN [deleted |-> FALSE, rows |-> rows]
    ELSE [deleted |-> TRUE, rows |-> {r \in rows : r.id > expense_id}]

\* mutant: no existence check before the DELETE
delete_expense_unchecked(expense_id) ==
    [deleted |-> TRUE, rows |-> {r \in rows : r.id # expense_id}]

\* The result of delete_expense and the table after it.
delete_expense(expense_id) ==
    IF ~(\E r \in rows : r.id = expense_id)
    THEN [deleted |-> FALSE, rows |-> rows]
    ELSE [deleted |-> TRUE, rows |-> {r \in rows : r.id # expense_id}]

----------------------------------------------------------------------------
(* app.py: the HTTP handlers *)

Call(op, data, id, category, sort) ==
    [op |-> op, data |-> data, id |-> id, category |-> category, sort |-> sort]

NoData == [amount |-> Absent, category |-> Absent, date |-> Absent,
           description |-> Absent]

Resp(code, status, error, expense, expenses, total) ==
    [code |-> code, status |-> status, error |-> error, expense |-> expense,
     expenses |-> expenses, total |-> total, count |-> Len(expenses)]

\* a response that carries no list
Reply(code, status, error, expense) ==
    Resp(code, status, error, expense, <<>>, JNum(0))

\* mutant: zero passes the amount check
ValidateAmount_nonneg(amount) ==
    IF ~float(amount).ok THEN "amount must be a valid number"
    ELSE IF float(amount).val < 0 THEN "amount must be greater than 0"
    ELSE ""

\* "Validate amount": float(amount), then amount <= 0
ValidateAmount(amount) ==
    IF ~float(amount).ok THEN "amount must be a valid number"
    ELSE IF float(amount).val <= 0 THEN "amount must be greater than 0"
    ELSE ""

\* "not data": the body is missing or an empty object
EmptyBody(data) == \A k \in DOMAIN data : data[k] = Absent

\* POST /expenses
create_expense(data) ==
    LET amount == Get(data, "amount")
        category == Get(data, "category")
        expense_date == Get(data, "date")
        description == GetDefault(data, "description", JStr(""))
        Reject(msg) ==
            /\ response' = Reply(400, "error", msg, NoRow)
            /\ UNCHANGED <<rows, seq>>
    IN /\ call' = Call("create", data, 0, JNull, JNull)
       /\ UNCHANGED <<clock, tz, deleted_ids, threads, conns>>
       /\ IF EmptyBody(data) THEN Reject("Request body is required")
          ELSE IF amount.type = "null" THEN Reject("amount is required")
          ELSE IF ~Truthy(category) THEN Reject("category is required")
          ELSE IF ~Truthy(expense_date) THEN Reject("date is required")
          ELSE IF ValidateAmount(amount) # "" THEN Reject(ValidateAmount(amount))
          ELSE IF upper(category.str) \notin VALID_CATEGORIES
               THEN Reject("category must be one of")
          ELSE \E out \in add_expense(float(amount).val, upper(category.str),
                                      expense_date.str, description) :
                /\ out.seq <= MaxId
                /\ rows' = out.rows
                /\ seq' = out.seq
                /\ response' =
                      IF out.status = "duplicate"
                      THEN Reply(200, "duplicate", "", out.expense)
                      ELSE IF out.status = "created"
                      THEN Reply(201, "created", "", out.expense)
                      ELSE Reply(500, "error", out.status, NoRow)

\* GET /expenses
app_get_expenses(category, sort) ==
    LET cat == IF Truthy(category) THEN JStr(upper(category.str)) ELSE category
        sort_by_date_desc == (sort = JStr("date_desc"))
    IN /\ call' = Call("list", NoData, 0, category, sort)
       /\ UNCHANGED <<rows, seq, clock, tz, deleted_ids, threads, conns>>
       /\ IF Truthy(category) /\ cat.str \notin VALID_CATEGORIES
          THEN response' = Reply(400, "error", "Invalid category", NoRow)
          ELSE \E expenses \in get_expenses(cat, sort_by_date_desc) :
                response' = Resp(200, "ok", "", NoRow, expenses,
                                 get_total_expenses(cat))

\* DELETE /expenses/<int:expense_id>
app_delete_expense(expense_id) ==
    LET out == delete_expense(expense_id)
    IN /\ call' = Call("delete", NoData, expense_id, JNull, JNull)
       /\ rows' = out.rows
       /\ UNCHANGED <<seq, clock, tz, threads, conns>>
       /\ IF out.deleted
          THEN /\ response' = Reply(200, "deleted", "", NoRow)
               /\ deleted_ids' = deleted_ids \cup {expense_id}
          ELSE /\ response' = Reply(404, "error", "Expense not found", NoRow)
               /\ UNCHANGED deleted_ids

\* time passes between requests
Tick ==
    /\ clock + TickSeconds <= MaxClock
    /\ clock' = clock + TickSeconds
    /\ UNCHANGED <<rows, seq, tz, call, response, deleted_ids, threads, conns>>

----------------------------------------------------------------------------
(* Overlapping requests: each handler runs in its own thread, and the      *)
(* threads interleave between the statements a handler sends to the store. *)
(* A statement, with the commit that follows it, is one step.              *)

Threads == {1, 2}

\* a request in a thread: the statement it is about to send, what it was
\* asked, cursor.lastrowid or the id to delete, the list it has fetched, and
\* its response once it is done
Thread(pc, req, expense_id, expenses, result) ==
    [pc |-> pc, call |-> req, expense_id |-> expense_id, expenses |-> expenses,
     result |-> result]

Idle == Thread("idle", Call("none", NoData, 0, JNull, JNull), 0, <<>>,
               Reply(0, "", "", NoRow))

\* thread t is not in the middle of a request
Free(t) == threads[t].pc \in {"idle", "done"}

\* thread t goes on to its next statement
Goto(t, pc, req, expense_id, expenses) ==
    threads' = [threads EXCEPT ![t] = Thread(pc, req, expense_id, expenses,
                                             Reply(0, "", "", NoRow))]

\* thread t answers
Finish(t, req, result) ==
    threads' = [threads EXCEPT ![t] = Thread("done", req, threads[t].expense_id,
                                             threads[t].expenses, result)]

\* the checks of create_expense before it calls add_expense
PassesValidation(data) ==
    /\ ~EmptyBody(data)
    /\ Get(data, "amount").type # "null"
    /\ Truthy(Get(data, "category"))
    /\ Truthy(Get(data, "date"))
    /\ ValidateAmount(Get(data, "amount")) = ""
    /\ upper(Get(data, "category").str) \in VALID_CATEGORIES

\* mutant: INSERT ... WHERE NOT EXISTS, the duplicate check repeated inside
\* the insertion
insert_row_unless_exists(amount, category, expense_date, description) ==
    IF check_duplicate(amount, category, expense_date, description) # {}
    THEN {}
    ELSE {[id |-> NextRowId, amount |-> amount, category |-> category,
           description |-> description, expense_date |-> expense_date,
           created_at |-> CURRENT_TIMESTAMP]}

\* the rows the INSERT statement of add_expense adds
insert_row(amount, category, expense_date, description) ==
    {[id |-> NextRowId, amount |-> amount, category |-> category,
      description |-> description, expense_date |-> expense_date,
      created_at |-> CURRENT_TIMESTAMP]}

\* POST /expenses up to the end of check_duplicate
add_expense_check(t, data) ==
    LET req == Call("create", data, 0, JNull, JNull)
        existing == check_duplicate(float(Get(data, "amount")).val,
                                    upper(Get(data, "category").str),
                                    Get(data, "date").str,
                                    GetDefault(data, "description", JStr("")))
    IN /\ Free(t)
       /\ PassesValidation(data)
       /\ IF existing # {}
          THEN \E e \in existing : Finish(t, req, Reply(200, "duplicate", "", e))
          ELSE Goto(t, "insert", req, 0, <<>>)
       /\ UNCHANGED <<rows, seq, clock, tz, call, response, deleted_ids, conns>>

\* the INSERT of add_expense and its commit
add_expense_insert(t) ==
    LET data == threads[t].call.data
        category == upper(Get(data, "category").str)
        inserted == insert_row(float(Get(data, "amount")).val, category,
                               Get(data, "date").str,
                               GetDefault(data, "description", JStr("")))
    IN /\ threads[t].pc = "insert"
       /\ NextRowId <= MaxId
       /\ IF category \notin SchemaCategories
          THEN /\ Finish(t, threads[t].call,
                         Reply(500, "error", "IntegrityError", NoRow))
               /\ UNCHANGED <<rows, seq>>
          ELSE /\ rows' = rows \cup inserted
               /\ seq' = MaxOf(RowIds(rows') \cup {seq})
               /\ Goto(t, "fetch", threads[t].call,
                       MaxOf(RowIds(inserted) \cup {0}), <<>>)
       /\ UNCHANGED <<clock, tz, call, response, deleted_ids, conns>>

\* the SELECT of add_expense that fetches the created row: dict(row) raises
\* TypeError when the row is gone
add_expense_fetch(t) ==
    LET found == {r \in rows : r.id = threads[t].expense_id}
    IN /\ threads[t].pc = "fetch"
       /\ IF found = {}
          THEN Finish(t, threads[t].call, Reply(500, "error", "TypeError", NoRow))
          ELSE \E r \in found :
                  Finish(t, threads[t].call, Reply(201, "created", "", r))
       /\ UNCHANGED <<rows, seq, clock, tz, call, response, deleted_ids, conns>>

\* DELETE /expenses/<id> up to the existence check of delete_expense
delete_expense_select(t, expense_id) ==
    LET req == Call("delete", NoData, expense_id, JNull, JNull)
    IN /\ Free(t)
       /\ IF \E r \in rows : r.id = expense_id
          THEN Goto(t, "delete", req, expense_id, <<>>)
          ELSE Finish(t, req, Reply(404, "error", "Expense not found", NoRow))
       /\ UNCHANGED <<rows, seq, clock, tz, call, response, deleted_ids, conns>>

\* the DELETE of delete_expense and its commit; the function returns True
\* without looking at the number of rows the statement removed
delete_expense_delete(t) ==
    /\ threads[t].pc = "delete"
    /\ rows' = {r \in rows : r.id # threads[t].expense_id}
    /\ deleted_ids' = deleted_ids \cup {threads[t].expense_id}
    /\ Finish(t, threads[t].call, Reply(200, "deleted", "", NoRow))
    /\ UNCHANGED <<seq, clock, tz, call, response, conns>>

\* GET /expenses up to the end of get_expenses
get_expenses_query(t, category, sort) ==
    LET cat == IF Truthy(category) THEN JStr(upper(category.str)) ELSE category
        req == Call("list", NoData, 0, category, sort)
    IN /\ Free(t)
       /\ IF Truthy(category) /\ cat.str \notin VALID_CATEGORIES
          THEN Finish(t, req, Reply(400, "error", "Invalid category", NoRow))
          ELSE \E expenses \in get_expenses(cat, sort = JStr("date_desc")) :
                  Goto(t, "total", req, 0, expenses)
       /\ UNCHANGED <<rows, seq, clock, tz, call, response, deleted_ids, conns>>

\* get_total_expenses and the response of GET /expenses
get_total_expenses_query(t) ==
    LET category == threads[t].call.category
        cat == IF Truthy(category) THEN JStr(upper(category.str)) ELSE category
    IN /\ threads[t].pc = "total"
       /\ Finish(t, threads[t].call,
                 Resp(200, "ok", "", NoRow, threads[t].expenses,
                      get_total_expenses(cat)))
       /\ UNCHANGED <<rows, seq, clock, tz, call, response, deleted_ids, conns>>

----------------------------------------------------------------------------
(* Storage failures *)

\* no connection is open
NoConns == [open |-> 0, locked |-> FALSE]

\* at most this many connections are left open at a time
MaxOpen == 2

\* a statement raises: the exception leaves the function before its
\* conn.close(), and the handler's except clause answers 500; held tells
\* whether the connection left open holds the write lock
Raise(req, held) ==
    /\ conns.open < MaxOpen
    /\ call' = req
    /\ response' = Reply(500, "error", "sqlite3.Error", NoRow)
    /\ conns' = [open |-> conns.open + 1, locked |-> conns.locked \/ held]
    /\ UNCHANGED <<clock, tz, deleted_ids, threads>>

\* POST /expenses when the statement named by fault fails ("none": no
\* statement is made to fail). A write meets "database is locked" while a
\* connection left open holds the write lock. A failed INSERT or commit
\* leaves its transaction open, and the row is never committed; a failure
\* of the last SELECT comes after the commit.
create_expense_faulty(data, fault) ==
    LET req == Call("create", data, 0, JNull, JNull)
        amount == float(Get(data, "amount")).val
        category == upper(Get(data, "category").str)
        expense_date == Get(data, "date").str
        description == GetDefault(data, "description", JStr(""))
        existing == check_duplicate(amount, category, expense_date, description)
        inserted == insert_row(amount, category, expense_date, description)
    IN /\ PassesValidation(data)
       /\ IF fault = "check"
          THEN Raise(req, FALSE) /\ UNCHANGED <<rows, seq>>
          ELSE IF existing # {}
          THEN fault = "none" /\ create_expense(data)
          ELSE IF conns.locked
          THEN Raise(req, FALSE) /\ UNCHANGED <<rows, seq>>
          ELSE IF fault \in {"insert", "commit"}
          THEN Raise(req, TRUE) /\ UNCHANGED <<rows, seq>>
          ELSE IF fault = "fetch"
          THEN /\ NextRowId <= MaxId
               /\ rows' = rows \cup inserted
               /\ seq' = MaxOf(RowIds(rows') \cup {seq})
               /\ Raise(req, FALSE)
          ELSE create_expense(data)

\* GET /expenses when the statement named by fault fails; reads are not
\* stopped by the write lock
app_get_expenses_faulty(category, sort, fault) ==
    IF fault \in {"list", "total"}
    THEN /\ ~(Truthy(category) /\ upper(category.str) \notin VALID_CATEGORIES)
         /\ Raise(Call("list", NoData, 0, category, sort), FALSE)
         /\ UNCHANGED <<rows, seq>>
    ELSE app_get_expenses(category, sort)

\* DELETE /expenses/<id> when the statement named by fault fails
app_delete_expense_faulty(expense_id, fault) ==
    LET req == Call("delete", NoData, expense_id, JNull, JNull)
    IN IF fault = "select"
       THEN Raise(req, FALSE) /\ UNCHANGED <<rows, seq>>
       ELSE IF ~(\E r \in rows : r.id = expense_id)
       THEN fault = "none" /\ app_delete_expense(expense_id)
       ELSE IF conns.locked
       THEN Raise(req, FALSE) /\ UNCHANGED <<rows, seq>>
       ELSE IF fault \in {"delete", "commit"}
       THEN Raise(req, TRUE) /\ UNCHANGED <<rows, seq>>
       ELSE app_delete_expense(expense_id)

\* the garbage collector frees the connections left open, which closes them
\* and rolls their transactions back
gc_collect ==
    /\ conns.open > 0
    /\ conns' = NoConns
    /\ UNCHANGED <<rows, seq, clock, tz, call, response, deleted_ids, threads>>

----------------------------------------------------------------------------
(* Inputs *)

\* hosts west of, at and east of UTC
TzOffsets == {-3600, 0, 3600}

Dates == {"2024-01-01", "2024-01-03"}

\* well-formed requests: amounts, categories and dates vary
StoreRequests ==
    [amount : {JNum(1), JNum(2)},
     category : {JStr("food"), JStr("RENT")},
     date : {JStr(d) : d \in Dates},
     description : {JStr("")}]

\* requests of every validity: each field may be missing or malformed, and
\* the description is left out or null
ApiRequests ==
    [amount : {Absent, JStr("abc"), JNum(0), JNum(-1), JNum(1), JStr("2")},
     category : {Absent, JStr("food"), JStr("pets")},
     date : {Absent, JStr("2024-01-01")},
     description : {Absent, JNull}]

CategoryArgs == {JNull, JStr("food"), JStr("pets")}

\* the requests of the threads: the same tuple twice, or two tuples
ThreadRequests ==
    [amount : {JNum(1), JNum(2)},
     category : {JStr("food")},
     date : {JStr("2024-01-01")},
     description : {JStr("")}]

SortArgs == {JNull, JStr("date_desc")}

\* the statement of a handler that fails, or none
CreateFaults == {"none", "check", "insert", "commit", "fetch"}
ListFaults == {"none", "list", "total"}
DeleteFaults == {"none", "select", "delete", "commit"}

Init ==
    /\ rows = {}
    /\ seq = 0
    /\ clock = 0
    /\ tz \in TzOffsets
    /\ call = Call("none", NoData, 0, JNull, JNull)
    /\ response = Reply(0, "", "", NoRow)
    /\ deleted_ids = {}
    /\ threads = [t \in Threads |-> Idle]
    /\ conns = NoConns

Next ==
    \/ \E data \in StoreRequests : create_expense(data)
    \/ \E category \in CategoryArgs, sort \in SortArgs :
          app_get_expenses(category, sort)
    \/ \E expense_id \in 1..MaxId : app_delete_expense(expense_id)
    \/ Tick

Spec == Init /\ [][Next]_vars

\* Create requests alone, of every validity
NextApi == \E data \in ApiRequests : create_expense(data)

SpecApi == Init /\ [][NextApi]_vars

\* The service with its requests overlapping
NextThreads ==
    \/ \E t \in Threads, data \in ThreadRequests : add_expense_check(t, data)
    \/ \E t \in Threads : add_expense_insert(t)
    \/ \E t \in Threads : add_expense_fetch(t)
    \/ \E t \in Threads, expense_id \in 1..MaxId :
          delete_expense_select(t, expense_id)
    \/ \E t \in Threads : delete_expense_delete(t)
    \/ \E t \in Threads : get_expenses_query(t, JNull, JNull)
    \/ \E t \in Threads : get_total_expenses_query(t)

\* a host on UTC, where the dedup window is the one intended
InitThreads == Init /\ tz = 0

SpecThreads == InitThreads /\ [][NextThreads]_vars

\* The service, one request at a time, with storage statements failing
NextFaults ==
    \/ \E data \in ThreadRequests, fault \in CreateFaults :
          create_expense_faulty(data, fault)
    \/ \E category \in CategoryArgs, fault \in ListFaults :
          app_get_expenses_faulty(category, JNull, fault)
    \/ \E expense_id \in 1..MaxId, fault \in DeleteFaults :
          app_delete_expense_faulty(expense_id, fault)
    \/ gc_collect

SpecFaults == Init /\ [][NextFaults]_vars

----------------------------------------------------------------------------
(* Vocabulary of the properties *)

\* the dedup window, in seconds
Window == timedelta(time_window_minutes)

\* the values add_expense receives for a request that passes validation
Submitted(data) ==
    [amount |-> float(Get(data, "amount")).val,
     category |-> upper(Get(data, "category").str),
     expense_date |-> Get(data, "date").str,
     description |-> GetDefault(data, "description", JStr(""))]

\* row r holds exactly the tuple t
HoldsTuple(r, t) ==
    /\ r.amount = t.amount
    /\ r.category = t.category
    /\ r.expense_date = t.expense_date
    /\ r.description = t.description

Gap(a, b) ==
    IF a.created_at >= b.created_at THEN a.created_at - b.created_at
    ELSE b.created_at - a.created_at

\* the step was taken by the handler of the named operation
StepOf(op) == clock' = clock /\ call'.op = op

\* an empty or absent description
Blank(description) == description = JNull \/ description = JStr("")

\* the fixed category set
CategoryLabels ==
    {"FOOD", "RENT", "TRANSPORT", "GROCERIES", "UTILITIES", "ENTERTAINMENT",
     "HEALTH", "EDUCATION", "SHOPPING", "TRAVEL", "OTHER"}

\* the amount of a request is missing, non-numeric, zero or negative
BadAmount(data) ==
    \/ data.amount.type \in {"absent", "null"}
    \/ data.amount.type = "string" /\ data.amount.str # "2"
    \/ data.amount.type = "number" /\ data.amount.num <= 0

Reverse(s) == [i \in 1..Len(s) |-> s[Len(s) + 1 - i]]

\* the amount of the stored record with id i when its category is c, else 0
AmountOf(i, c) ==
    IF \E r \in rows : r.id = i /\ r.category = c
    THEN (CHOOSE r \in rows : r.id = i /\ r.category = c).amount
    ELSE 0

\* the amounts of the stored records of category c with ids up to n, added
RECURSIVE SumUpTo(_, _)
SumUpTo(n, c) == IF n = 0 THEN 0 ELSE AmountOf(n, c) + SumUpTo(n - 1, c)

\* the per-category totals of the categories in C, added
RECURSIVE SumOfTotals(_)
SumOfTotals(C) ==
    IF C = {} THEN 0
    ELSE LET c == CHOOSE x \in C : TRUE
         IN get_total_expenses(JStr(c)).num + SumOfTotals(C \ {c})

----------------------------------------------------------------------------
(* Properties *)

\* C1 (as claimed): the store never holds two records with the same
\* (amount, category, date, description) whose created_at values are
\* 5 minutes or less apart.
C1_DuplicateSuppression ==
    \A a, b \in rows :
        (a.id # b.id /\ HoldsTuple(a, b)) => Gap(a, b) > Window

\* C2 (as claimed): a record call returns a created outcome and adds exactly
\* one row with a new id whenever no stored record with the identical tuple
\* has created_at within the trailing 5 minutes.
C2_WindowExpiry ==
    [][(/\ StepOf("create")
        /\ ~(\E r \in rows :
                /\ HoldsTuple(r, Submitted(call'.data))
                /\ r.created_at >= clock - Window))
       => /\ response'.status = "created"
          /\ \E r \in rows' :
                /\ r.id \notin RowIds(rows)
                /\ r = response'.expense
                /\ rows' = rows \cup {r}]_vars

\* C3 (as claimed, on a host whose local time is UTC): two records with the
\* same amount, category and date whose descriptions are both empty or
\* absent are never stored 5 minutes or less apart.
C3_BlankDescriptionsEquivalent ==
    tz = 0 =>
        \A a, b \in rows :
            (/\ a.id # b.id
             /\ a.amount = b.amount
             /\ a.category = b.category
             /\ a.expense_date = b.expense_date
             /\ Blank(a.description)
             /\ Blank(b.description)) => Gap(a, b) > Window

\* C4: a duplicate outcome changes nothing: the table and the id counter are
\* as before the call, and the expense returned is a stored record holding
\* the submitted amount, category, date and description.
C4_DuplicateNoMutation ==
    [][(StepOf("create") /\ response'.status = "duplicate")
       => /\ rows' = rows
          /\ seq' = seq
          /\ response'.expense \in rows'
          /\ HoldsTuple(response'.expense, Submitted(call'.data))]_vars

\* C4 witness: a create request answered as a duplicate of a stored record
C4_Witness ==
    /\ call.op = "create"
    /\ response.status = "duplicate"
    /\ response.expense \in rows

\* C5: delete(id) reports success exactly when the id is stored, hence at
\* most once per id; an id once deleted is in no later table and no later
\* listing, and later deletes of it report not found.
C5_DeletionFinality ==
    [][/\ StepOf("delete") =>
            /\ (response'.code = 200) <=> (call'.id \in RowIds(rows))
            /\ (response'.code = 404) <=> (call'.id \notin RowIds(rows))
            /\ call'.id \in deleted_ids => response'.code = 404
            /\ call'.id \notin RowIds(rows')
       /\ deleted_ids' \cap RowIds(rows') = {}
       /\ StepOf("list") =>
            \A i \in 1..Len(response'.expenses) :
                response'.expenses[i].id \notin deleted_ids']_vars

\* C5 witness: a second delete of a deleted id reported not found, with a
\* record created after the deletion in the table
C5_Witness ==
    /\ call.op = "delete"
    /\ call.id \in deleted_ids
    /\ response.code = 404
    /\ rows # {}

\* C6: ids are unique; a created record's id is greater than every id
\* assigned before it, stored or deleted; a stored record keeps its id and
\* its fields for as long as it is stored.
C6_IdsUniqueIncreasing ==
    [][/\ \A a, b \in rows' : a.id = b.id => a = b
       /\ (StepOf("create") /\ response'.status = "created") =>
            /\ \A i \in RowIds(rows) \cup deleted_ids : response'.expense.id > i
            /\ response'.expense.id \notin RowIds(rows)
       /\ \A r \in rows : r \in rows' \/ r.id \notin RowIds(rows')]_vars

\* C6 witness: a record created after an earlier record was deleted
C6_Witness ==
    /\ call.op = "create"
    /\ response.status = "created"
    /\ deleted_ids # {}
    /\ response.expense \in rows

C8_CategoryClosure ==
    [][/\ \A r \in rows' : r.category \in CategoryLabels
       /\ (/\ StepOf("create")
           /\ call'.data.category.type = "string"
           /\ upper(call'.data.category.str) \notin CategoryLabels) =>
            /\ response'.code = 400
            /\ rows' = rows
            /\ seq' = seq
       /\ (StepOf("create") /\ response'.status = "created") =>
            /\ response'.expense \in rows'
            /\ response'.expense.category = upper(call'.data.category.str)]_vars

\* C8 witness: a category outside the set refused over a table that holds a
\* record submitted in lowercase and stored in uppercase
C8_Witness ==
    /\ call.op = "create"
    /\ call.data.category = JStr("pets")
    /\ response.code = 400
    /\ \E r \in rows : r.category = "FOOD"

\* C9 (as claimed, on a host whose local time is UTC): every default listing
\* holds the records of one expense_date in insertion order, and every
\* newest_first listing is the reverse of the default listing.
C9_SortDeterminism ==
    tz = 0 =>
    \A category \in {JNull, JStr("FOOD"), JStr("RENT")} :
        \A asc \in get_expenses(category, FALSE) :
            /\ \A i, j \in 1..Len(asc) :
                 (i < j /\ asc[i].expense_date = asc[j].expense_date)
                    => asc[i].id < asc[j].id
            /\ \A desc \in get_expenses(category, TRUE) : desc = Reverse(asc)

\* C10: the total of a category is the sum of the amounts of its stored
\* records, 0 when it has none, and the unfiltered total is the sum of the
\* 11 per-category totals.
C10_AggregateCorrectness ==
    /\ \A c \in CategoryLabels :
         /\ get_total_expenses(JStr(c)) = JNum(SumUpTo(MaxOf(RowIds(rows) \cup {0}), c))
         /\ (~\E r \in rows : r.category = c) => get_total_expenses(JStr(c)) = JNum(0)
    /\ get_total_expenses(JNull) = JNum(SumOfTotals(CategoryLabels))

\* C10 witness: a listing filtered by one category reports a positive total
\* while the table also holds a record of another category
C10_Witness ==
    /\ call.op = "list"
    /\ call.category = JStr("food")
    /\ response.code = 200
    /\ response.total.num > 0
    /\ \E r \in rows : r.category = "RENT"

\* C11: a record call whose duplicate check found nothing inserts its row
\* whatever other calls have inserted since, and answers created when it
\* reads that row back; so two overlapping calls with the same data that
\* both check before either inserts both answer created and leave two rows
\* of the same tuple, created within the dedup window of each other.
C11_DuplicateRace ==
    [][\A t \in Threads :
          /\ threads[t].pc = "insert" /\ threads'[t].pc # "insert"
             => \E r \in rows' \ rows :
                   /\ HoldsTuple(r, Submitted(threads[t].call.data))
                   /\ rows' = rows \cup {r}
                   /\ threads'[t].pc = "fetch"
                   /\ threads'[t].expense_id = r.id
          /\ /\ threads[t].pc = "fetch" /\ threads'[t].pc # "fetch"
             /\ \E r \in rows : r.id = threads[t].expense_id
             => /\ threads'[t].result.code = 201
                /\ threads'[t].result.status = "created"
                /\ threads'[t].result.expense \in rows]_vars

\* C11 witness: both threads were given the same data, both answered
\* created, and the table holds their two rows, created within the window
C11_Witness ==
    /\ \A t \in Threads :
         /\ threads[t].pc = "done"
         /\ threads[t].call.op = "create"
         /\ threads[t].result.status = "created"
         /\ threads[t].result.expense \in rows
         /\ HoldsTuple(threads[t].result.expense, Submitted(threads[t].call.data))
    /\ threads[1].call.data = threads[2].call.data
    /\ threads[1].result.expense.id # threads[2].result.expense.id
    /\ Gap(threads[1].result.expense, threads[2].result.expense) <= Window

C13_WindowOnStorageClock ==
    [][StepOf("create") /\ PassesValidation(call'.data)
       => ((response'.status = "duplicate")
           <=> \E r \in rows :
                  /\ HoldsTuple(r, Submitted(call'.data))
                  /\ CURRENT_TIMESTAMP - r.created_at <= Window)]_vars

\* C14: delete(id) removes the record with that id and nothing else: every
\* other stored record stays as it was and no record appears; a delete of
\* an id that is not stored reports not found and leaves the table
\* unchanged, so a delete repeated after a successful one changes nothing.
C14_DeleteFrame ==
    [][StepOf("delete")
       => /\ rows' = {r \in rows : r.id # call'.id}
          /\ seq' = seq
          /\ call'.id \notin RowIds(rows')
          /\ call'.id \notin RowIds(rows) => response'.code = 404 /\ rows' = rows
          /\ call'.id \in deleted_ids => response'.code = 404 /\ rows' = rows]_vars

\* C14 witness: a delete was answered 200 and another record is still stored
C14_Witness ==
    /\ call.op = "delete"
    /\ response.code = 200
    /\ call.id \in deleted_ids
    /\ \E r \in rows : r.id # call.id

\* C15: created_at is the store's clock at the insertion, whatever the
\* request holds, a stored record is never changed, and of any two stored
\* records the one with the larger id has the later or equal created_at.
C15_CreatedAtByStore ==
    [][/\ \A r \in rows' :
            /\ r.id \in RowIds(rows) => r \in rows
            /\ r.id \notin RowIds(rows) => r.created_at = clock'
       /\ \A a, b \in rows' : a.id < b.id => a.created_at <= b.created_at]_vars

\* C15 witness: two records inserted at different instants are stored
C15_Witness ==
    \E a, b \in rows : a.id < b.id /\ a.created_at < b.created_at

\* C16: of the delete calls on one id at most one reports success, also
\* when they overlap: two threads that have both finished a delete of the
\* same id have not both answered deleted.
C16_OneDeletePerId ==
    \A t, u \in Threads :
        /\ t # u
        /\ threads[t].pc = "done" /\ threads[u].pc = "done"
        /\ threads[t].call.op = "delete" /\ threads[u].call.op = "delete"
        /\ threads[t].call.id = threads[u].call.id
        => ~(threads[t].result.code = 200 /\ threads[u].result.code = 200)

\* C17: every List response has count equal to the number of expenses it
\* returns and total equal to the sum of their amounts, also when other
\* requests run between its listing query and its total query.
C17_ListConsistency ==
    \A t \in Threads :
        /\ threads[t].pc = "done"
        /\ threads[t].call.op = "list"
        /\ threads[t].result.code = 200
        => LET expenses == threads[t].result.expenses
           IN /\ threads[t].result.count = Len(expenses)
              /\ threads[t].result.total =
                    JNum(SumAmounts({expenses[i] : i \in 1..Len(expenses)}))

\* C18: when a store operation finishes, normally or by a failing
\* statement, no connection it opened is left open; a failure is answered
\* 500, and a failed record call leaves the stored records unchanged.
C18_ScopedConnections ==
    [][conns'.open >= conns.open
       => /\ conns'.open = 0
          /\ conns' # conns => response'.code = 500
          /\ call'.op = "create" /\ response'.code = 500 => rows' = rows]_vars

====
